---- MODULE Spec2Model ----
(***************************************************************************)
(* Model of genlm/backend/llm/base.py: the AsyncLM base class (vocabulary  *)
(* binding, default batch operations built on asyncio.gather and           *)
(* torch.stack, clear_cache) and the MockAsyncLM backend (seed derivation, *)
(* shared numpy RandomState, log-softmax rows).                            *)
(*                                                                         *)
(* Values that TLA+ cannot compute are kept as terms:                      *)
(*   - the k-th double drawn from a RandomState seeded with s is the       *)
(*     record [seed |-> s, k |-> k, dtype |-> "float64"];                  *)
(*   - torch.log_softmax(x, dim=-1) is the term                            *)
(*     [op |-> "log_softmax", dim |-> -1, of |-> x];                       *)
(*   - a table decode_vocab builds is the term                             *)
(*     [table |-> "bytes" or "str", of |-> tokenizer, size |-> entries];   *)
(*   - a Python int (unbounded) is a pair <<q, r>> standing for            *)
(*     q * 2^16 + r with 0 <= r < 2^16, since the seed can pass 2^31.      *)
(***************************************************************************)
EXTENDS Integers, Sequences, FiniteSets

VARIABLES
    tokenizer,        \* self.tokenizer: the tokenizer; only len() of it is used
    byte_vocab,       \* self.byte_vocab
    str_vocab,        \* self.str_vocab
    _rng,             \* self._rng: the one RandomState shared by every request
    token_ids_list,   \* argument of the batch_next_token_logprobs call in flight
    tasks,            \* the tasks asyncio.gather made of the fan-out coroutines
    outer,            \* the future asyncio.gather returned
    batch,            \* the batch_next_token_logprobs coroutine itself
    sbatch,           \* the last batch_next_token_logprobs_sync call
    log,              \* every finished single-request call: kind, input, outcome
    last,             \* the operation the last step belonged to
    ncalls            \* single-request calls issued so far

vars == <<tokenizer, byte_vocab, str_vocab, _rng, token_ids_list, tasks, outer,
          batch, sbatch, log, last, ncalls>>

----------------------------------------------------------------------------
(* Bounds of the model and the inputs the caller draws from.                *)

MaxCalls == 3       \* single-request calls served in one behaviour
MaxBatch == 2       \* longest token_ids_list of a batch call
MaxLen == 3         \* longest token sequence of SpecSeed
MaxTok == 3         \* largest token id of SpecSeed
SmallVocab == 6     \* len(tokenizer) of the small tokenizer
Gpt2Vocab == 50257  \* len(tokenizer) of the GPT-2 tokenizer

(* Token sequences of the small model.  MockAsyncLM checks no id against    *)
(* the vocabulary, so the id -1 reaches the seed computation like any       *)
(* other.                                                                   *)
Requests == { <<1, 2, 3>>, <<2, 1>>, <<-1>>, <<0, -1>> }

Repeat(t, n) == [i \in 1..n |-> t]

(* In-range GPT-2 sequences around the length where the seed passes 2^32:   *)
(* one id repeated, the last ids of the vocabulary, 408 to 421 tokens.      *)
LongLens == 408..421
LongRequests ==
    { Repeat(t, n) : t \in (Gpt2Vocab - 4)..(Gpt2Vocab - 1), n \in LongLens }

InRange(token_ids, vocab_size) ==
    \A i \in 1..Len(token_ids) : token_ids[i] >= 0 /\ token_ids[i] < vocab_size

RECURSIVE SeqsUpTo(_, _)
SeqsUpTo(S, n) ==
    IF n = 0 THEN { <<>> }
    ELSE LET shorter == SeqsUpTo(S, n - 1)
         IN  shorter \cup { Append(s, x) : s \in { q \in shorter : Len(q) = n - 1 }, x \in S }

----------------------------------------------------------------------------
(* Python integers beyond TLC's range.                                      *)

Limb == 2 ^ 16
Big(n) == << n \div Limb, n % Limb >>
BigAdd(a, b) == << a[1] + b[1] + ((a[2] + b[2]) \div Limb), (a[2] + b[2]) % Limb >>

----------------------------------------------------------------------------
(* numpy.random.RandomState, as the mock uses it.                           *)

(* RandomState(s) and a successful seed(s) leave the generator at the       *)
(* start of the stream of s.                                                *)
RandomState(seed) == [seed |-> seed, pos |-> 0]

NoError == [type |-> "none", msg |-> "", frame |-> <<>>]

SeedError(token_ids) ==
    [type |-> "ValueError", msg |-> "Seed must be between 0 and 2**32 - 1",
     frame |-> token_ids]

(* seed(s) accepts 0 <= s <= 2^32 - 1 and raises ValueError otherwise,      *)
(* leaving the generator as it was; accepted, it restarts the generator at  *)
(* the start of the stream of s whatever its state was.                     *)
SeedAccepted(seed) == seed[1] >= 0 /\ seed[1] < Limb
seed_state_ignored(gen, seed) == gen
seed_state(gen, seed) == RandomState(seed)

(* The j-th double rand() draws next, and the cast of one value.            *)
draw(gen, j) == [seed |-> gen.seed, k |-> gen.pos + j, dtype |-> "float64"]
float32(v) == [v EXCEPT !.dtype = "float32"]

(* rand(n).astype(np.float32): the next n doubles of the stream, each cast, *)
(* and the generator n draws further.                                       *)
rand_float32_short(gen, n) == [j \in 1..(n - 1) |-> float32(draw(gen, j))]
rand_float32(gen, n) == [j \in 1..n |-> float32(draw(gen, j))]
rand_state(gen, n) == [gen EXCEPT !.pos = @ + n]

(* torch.log_softmax(logits, dim=-1) of a 1-D tensor: entry j is            *)
(* logits[j] - log(sum_k exp(logits[k])), so the exponentials of the        *)
(* entries sum to 1 exactly when the term normalises over the whole tensor. *)
log_softmax(logits) == [op |-> "log_softmax", dim |-> -1, of |-> logits]

NoTensor == [op |-> "none", dim |-> 0, of |-> <<>>]
RowLen(t) == Len(t.of)

(* torch.stack(rows): a [len(rows), V] tensor, RuntimeError on no rows.     *)
StackError ==
    [type |-> "RuntimeError", msg |-> "stack expects a non-empty TensorList",
     frame |-> <<>>]
NoStack == [shape |-> <<0, 0>>, rows |-> <<>>]
torch_stack(rows) ==
    IF rows = <<>> THEN [ok |-> FALSE, val |-> NoStack, err |-> StackError]
    ELSE [ok |-> TRUE,
          val |-> [shape |-> <<Len(rows), RowLen(rows[1])>>, rows |-> rows],
          err |-> NoError]

----------------------------------------------------------------------------
(* MockAsyncLM._get_logprobs and the two single-request entry points.       *)

(* Weight of the element enumerate() numbers i (from 0).                    *)
weight_from_zero(i) == i
weight(i) == i + 1

(* [(i + 1) * t for i, t in enumerate(token_ids)]                           *)
terms(token_ids) == [k \in 1..Len(token_ids) |-> weight(k - 1) * token_ids[k]]

(* sum(xs) over Python integers.  Addition of integers is associative, so   *)
(* the range is summed by halves to keep the recursion shallow.             *)
RECURSIVE sum_range(_, _, _)
sum_range(xs, lo, hi) ==
    IF lo > hi THEN Big(0)
    ELSE IF lo = hi THEN Big(xs[lo])
    ELSE LET mid == (lo + hi) \div 2
         IN  BigAdd(sum_range(xs, lo, mid), sum_range(xs, mid + 1, hi))
sum(xs) == sum_range(xs, 1, Len(xs))

seed_of(token_ids) == sum(terms(token_ids))

(* len(self.tokenizer)                                                      *)
len_tokenizer(tok) == tok.len

Returned(v) == [ok |-> TRUE, val |-> v, err |-> NoError]
Raised(e) == [ok |-> FALSE, val |-> NoTensor, err |-> e]

(* One call of _get_logprobs on the generator gen: the outcome (the tensor  *)
(* returned or the exception raised) and the generator it leaves behind.    *)
_get_logprobs(gen, tok, token_ids) ==
    LET seed == seed_of(token_ids)
    IN  IF ~SeedAccepted(seed)
        THEN [out |-> Raised(SeedError(token_ids)), gen |-> gen]
        ELSE LET seeded == seed_state(gen, seed)
                 n == len_tokenizer(tok)
                 logits == rand_float32(seeded, n)
             IN  [out |-> Returned(log_softmax(logits)), gen |-> rand_state(seeded, n)]

next_token_logprobs(gen, tok, token_ids) == _get_logprobs(gen, tok, token_ids)

next_token_logprobs_sync_float64(gen, tok, token_ids) ==
    LET r == _get_logprobs(gen, tok, token_ids)
    IN  IF ~r.out.ok THEN r
        ELSE [out |-> Returned(log_softmax([j \in 1..len_tokenizer(tok) |->
                                              draw(seed_state(gen, seed_of(token_ids)), j)])),
              gen |-> r.gen]
next_token_logprobs_sync(gen, tok, token_ids) == _get_logprobs(gen, tok, token_ids)

----------------------------------------------------------------------------
(* AsyncLM.__init__ and clear_cache.                                        *)

(* decode_vocab(tokenizer): the byte table and the string table of the     *)
(* tokenizer, each covering the indices 0 .. len(tokenizer) - 1.  A table   *)
(* is kept as the term naming the tokenizer it was decoded from.            *)
decode_vocab(tok) ==
    << [table |-> "bytes", of |-> tok.name, size |-> tok.len],
       [table |-> "str", of |-> tok.name, size |-> tok.len] >>

Client ==
    [tokenizer |-> tokenizer, byte_vocab |-> byte_vocab, str_vocab |-> str_vocab,
     _rng |-> _rng]

(* clear_cache(self): pass                                                  *)
clear_cache_drops_vocab(self) ==
    [self EXCEPT !.byte_vocab = [@ EXCEPT !.size = 0],
                 !.str_vocab = [@ EXCEPT !.size = 0]]
clear_cache(self) == self

----------------------------------------------------------------------------
(* asyncio.gather over the fan-out coroutines.                              *)

NoOutcome == [ok |-> FALSE, val |-> NoTensor, err |-> NoError]

(* [self.next_token_logprobs(token_ids) for token_ids in token_ids_list],   *)
(* each coroutine wrapped in a task by gather, none of them started yet.    *)
fan_out(l) ==
    [i \in 1..Len(l) |->
        [token_ids |-> l[i], state |-> "pending", out |-> NoOutcome, stamp |-> 0]]

NDone(ts) == Cardinality({ i \in 1..Len(ts) : ts[i].state = "done" })

(* gather's nfinished == nfuts test.                                        *)
any_finished(ts) == NDone(ts) >= 1
all_finished(ts) == NDone(ts) = Len(ts)

(* gather's results: [fut.result() for fut in children], children in the    *)
(* order of the arguments.                                                  *)
gather_results_as_completed(ts) ==
    [k \in 1..Len(ts) |-> ts[CHOOSE i \in 1..Len(ts) : ts[i].stamp = k].out.val]
gather_results(ts) == [i \in 1..Len(ts) |-> ts[i].out.val]

(* gather(): the future returned; already resolved to [] without children.  *)
gather(ts) ==
    IF Len(ts) = 0 THEN [state |-> "result", value |-> <<>>, exc |-> NoError]
    ELSE [state |-> "pending", value |-> <<>>, exc |-> NoError]

(* gather's _done_callback for child i, run as the child finishes.          *)
_done_callback_last_error(fut, ts, i) ==
    IF fut.state = "result" THEN fut
    ELSE IF ~ts[i].out.ok
         THEN [state |-> "exception", value |-> <<>>, exc |-> ts[i].out.err]
    ELSE IF fut.state = "pending" /\ all_finished(ts)
         THEN [state |-> "result", value |-> gather_results(ts), exc |-> NoError]
    ELSE fut
_done_callback(fut, ts, i) ==
    IF fut.state # "pending" THEN fut
    ELSE IF ~ts[i].out.ok
         THEN [state |-> "exception", value |-> <<>>, exc |-> ts[i].out.err]
    ELSE IF all_finished(ts)
         THEN [state |-> "result", value |-> gather_results(ts), exc |-> NoError]
    ELSE fut

(* The batch coroutine past its await: the exception of the future is       *)
(* raised as it is, a result goes through torch.stack.                      *)
Idle == [state |-> "idle", val |-> NoStack, err |-> NoError]
Awaiting == [state |-> "awaiting", val |-> NoStack, err |-> NoError]
after_await(fut) ==
    IF fut.state = "exception"
    THEN [state |-> "raised", val |-> NoStack, err |-> fut.exc]
    ELSE LET st == torch_stack(fut.value)
         IN  IF st.ok THEN [state |-> "returned", val |-> st.val, err |-> NoError]
             ELSE [state |-> "raised", val |-> NoStack, err |-> st.err]

----------------------------------------------------------------------------
(* batch_next_token_logprobs_sync: the list comprehension and the stack.    *)

(* The order in which the comprehension visits token_ids_list.              *)
visit_order_reversed(n) == [k \in 1..n |-> n + 1 - k]
visit_order(n) == [k \in 1..n |-> k]

(* The comprehension: one blocking call per element visited, each result    *)
(* appended; the first exception ends it.                                   *)
RECURSIVE comprehend(_, _, _, _, _)
comprehend(gen, tok, l, order, acc) ==
    IF Len(acc.outs) = Len(order) \/ acc.failed THEN acc
    ELSE LET t == l[order[Len(acc.outs) + 1]]
             r == next_token_logprobs_sync(acc.gen, tok, t)
         IN  comprehend(gen, tok, l, order,
                        [gen |-> r.gen, outs |-> Append(acc.outs, r.out),
                         calls |-> Append(acc.calls, t), failed |-> ~r.out.ok])

batch_next_token_logprobs_sync(gen, tok, l) ==
    LET c == comprehend(gen, tok, l, visit_order(Len(l)),
                        [gen |-> gen, outs |-> <<>>, calls |-> <<>>, failed |-> FALSE])
        st == torch_stack([k \in 1..Len(c.outs) |-> c.outs[k].val])
    IN  [gen |-> c.gen, calls |-> c.calls, outs |-> c.outs,
         res |-> IF c.failed
                 THEN [state |-> "raised", val |-> NoStack,
                       err |-> c.outs[Len(c.outs)].err]
                 ELSE IF st.ok
                 THEN [state |-> "returned", val |-> st.val, err |-> NoError]
                 ELSE [state |-> "raised", val |-> NoStack, err |-> st.err]]

----------------------------------------------------------------------------
(* The state machine.                                                       *)

BatchInputs == SeqsUpTo(Requests, MaxBatch)
TokenSeqs == SeqsUpTo(0..MaxTok, MaxLen)

Entry(kind, t, out) == [kind |-> kind, token_ids |-> t, out |-> out]

InitWith(tok) ==
    /\ tokenizer = tok
    /\ byte_vocab = decode_vocab(tok)[1]
    /\ str_vocab = decode_vocab(tok)[2]
    /\ _rng = RandomState(Big(42))
    /\ token_ids_list = <<>>
    /\ tasks = <<>>
    /\ outer = [state |-> "none", value |-> <<>>, exc |-> NoError]
    /\ batch = Idle
    /\ sbatch = [res |-> Idle, token_ids_list |-> <<>>, calls |-> <<>>]
    /\ log = {}
    /\ last = "__init__"
    /\ ncalls = 0

Init == InitWith([name |-> "small", len |-> SmallVocab])
InitGpt2 == InitWith([name |-> "gpt2", len |-> Gpt2Vocab])

(* await lm.next_token_logprobs(t): the coroutine has no await of its own   *)
(* and runs to its return in one piece.                                     *)
NextTokenLogprobs(t) ==
    /\ ncalls < MaxCalls
    /\ LET r == next_token_logprobs(_rng, tokenizer, t)
       IN  /\ _rng' = r.gen
           /\ log' = log \cup { Entry("async", t, r.out) }
    /\ last' = "next_token_logprobs"
    /\ ncalls' = ncalls + 1
    /\ UNCHANGED <<tokenizer, byte_vocab, str_vocab, token_ids_list, tasks, outer,
                   batch, sbatch>>

NextTokenLogprobsSync(t) ==
    /\ ncalls < MaxCalls
    /\ LET r == next_token_logprobs_sync(_rng, tokenizer, t)
       IN  /\ _rng' = r.gen
           /\ log' = log \cup { Entry("sync", t, r.out) }
    /\ last' = "next_token_logprobs_sync"
    /\ ncalls' = ncalls + 1
    /\ UNCHANGED <<tokenizer, byte_vocab, str_vocab, token_ids_list, tasks, outer,
                   batch, sbatch>>

ClearCache ==
    /\ LET self == clear_cache(Client)
       IN  /\ tokenizer' = self.tokenizer
           /\ byte_vocab' = self.byte_vocab
           /\ str_vocab' = self.str_vocab
           /\ _rng' = self._rng
    /\ last' = "clear_cache"
    /\ UNCHANGED <<token_ids_list, tasks, outer, batch, sbatch, log, ncalls>>

(* batch_next_token_logprobs(l) up to its await.  A future that is already  *)
(* done is awaited without suspending, so the call with no request runs     *)
(* through torch.stack in the same step.                                    *)
BatchCall(l) ==
    /\ ncalls + Len(l) <= MaxCalls
    /\ batch.state # "awaiting"
    /\ \A i \in 1..Len(tasks) : tasks[i].state = "done"
    /\ token_ids_list' = l
    /\ tasks' = fan_out(l)
    /\ outer' = gather(fan_out(l))
    /\ batch' = IF gather(fan_out(l)).state = "pending" THEN Awaiting
                ELSE after_await(gather(fan_out(l)))
    /\ last' = "batch_next_token_logprobs"
    /\ ncalls' = ncalls + Len(l)
    /\ UNCHANGED <<tokenizer, byte_vocab, str_vocab, _rng, sbatch, log>>

(* The event loop runs fan-out task i: next_token_logprobs to its end,      *)
(* then gather's callback for it.  The coroutine never suspends, so a task  *)
(* is one step; which ready task the loop runs next, and what other calls   *)
(* of the caller run between two tasks, is left open.                       *)
TaskRun(i) ==
    /\ i \in 1..Len(tasks)
    /\ tasks[i].state = "pending"
    /\ LET r == next_token_logprobs(_rng, tokenizer, tasks[i].token_ids)
           ts == [tasks EXCEPT ![i] = [token_ids |-> @.token_ids, state |-> "done",
                                       out |-> r.out, stamp |-> NDone(tasks) + 1]]
       IN  /\ _rng' = r.gen
           /\ tasks' = ts
           /\ outer' = _done_callback(outer, ts, i)
           /\ log' = log \cup { Entry("async", tasks[i].token_ids, r.out) }
    /\ last' = "next_token_logprobs"
    /\ UNCHANGED <<tokenizer, byte_vocab, str_vocab, token_ids_list, batch, sbatch,
                   ncalls>>

(* The batch coroutine resumes once the gather future is done.              *)
BatchResume ==
    /\ batch.state = "awaiting"
    /\ outer.state \in {"result", "exception"}
    /\ batch' = after_await(outer)
    /\ last' = "batch_next_token_logprobs"
    /\ UNCHANGED <<tokenizer, byte_vocab, str_vocab, _rng, token_ids_list, tasks,
                   outer, sbatch, log, ncalls>>

BatchCallSync(l) ==
    /\ ncalls + Len(l) <= MaxCalls
    /\ LET b == batch_next_token_logprobs_sync(_rng, tokenizer, l)
       IN  /\ _rng' = b.gen
           /\ sbatch' = [res |-> b.res, token_ids_list |-> l, calls |-> b.calls]
           /\ log' = log \cup { Entry("sync", b.calls[k], b.outs[k]) :
                                  k \in 1..Len(b.calls) }
    /\ last' = "batch_next_token_logprobs_sync"
    /\ ncalls' = ncalls + Len(l)
    /\ UNCHANGED <<tokenizer, byte_vocab, str_vocab, token_ids_list, tasks, outer,
                   batch>>

Next ==
    \/ \E t \in Requests : NextTokenLogprobs(t)
    \/ \E t \in Requests : NextTokenLogprobsSync(t)
    \/ ClearCache
    \/ \E l \in BatchInputs : BatchCall(l)
    \/ \E i \in 1..Len(tasks) : TaskRun(i)
    \/ BatchResume
    \/ \E l \in BatchInputs : BatchCallSync(l)

Spec == Init /\ [][Next]_vars

(* The first single-request call of a client, over every short sequence of  *)
(* in-range ids.                                                            *)
NextSeed ==
    /\ log = {}
    /\ \/ \E t \in TokenSeqs : NextTokenLogprobs(t)
       \/ \E t \in TokenSeqs : NextTokenLogprobsSync(t)

SpecSeed == Init /\ [][NextSeed]_vars

(* The first single-request call of a client on the GPT-2 vocabulary.       *)
NextGpt2 ==
    /\ log = {}
    /\ \/ \E t \in LongRequests : NextTokenLogprobs(t)
       \/ \E t \in LongRequests : NextTokenLogprobsSync(t)

SpecGpt2 == InitGpt2 /\ [][NextGpt2]_vars

----------------------------------------------------------------------------
(* Properties.                                                              *)

Rows == batch.val.rows
SyncRows == sbatch.res.val.rows
Failed(i) == tasks[i].state = "done" /\ ~tasks[i].out.ok
VocabSize == len_tokenizer(tokenizer)

(* exp of the entries of t sum to 1: t is log_softmax over its whole        *)
(* (only) dimension.                                                        *)
Normalised(t) == t.op = "log_softmax" /\ t.dim = -1
IsDistribution(t) == RowLen(t) = VocabSize /\ Normalised(t)

(* C1: when batch_next_token_logprobs returns, its result has one row per   *)
(* request and row i is the value next_token_logprobs returned for request  *)
(* i, whatever order the fan-out calls finished in.                         *)
Thm_C1_RowsAlignedBySourceIndex ==
    batch.state = "returned" =>
        /\ Len(Rows) = Len(token_ids_list)
        /\ \A i \in 1..Len(token_ids_list) :
              Entry("async", token_ids_list[i], Returned(Rows[i])) \in log

(* A batch of two requests with different distributions has returned, the   *)
(* second having finished first.                                            *)
Wit_C1_SecondFinishedFirst ==
    /\ batch.state = "returned"
    /\ Len(token_ids_list) = 2
    /\ token_ids_list[1] # token_ids_list[2]
    /\ Rows[1] # Rows[2]
    /\ tasks[2].stamp < tasks[1].stamp

(* C2: a batch call ends either with a full index-aligned result, no member *)
(* having raised, or by raising, unchanged, the first error a member        *)
(* raised: first in time for the non-blocking batch, first in input order   *)
(* for the blocking one.  It never returns a partial result.  (A batch of   *)
(* no request has no member and raises the error of torch.stack.)           *)
Thm_C2_FailsWithFirstError ==
    /\ batch.state = "returned" =>
          /\ Len(Rows) = Len(token_ids_list)
          /\ \A i \in 1..Len(tasks) : tasks[i].state = "done" /\ tasks[i].out.ok
    /\ (batch.state = "raised" /\ token_ids_list # <<>>) =>
          \E i \in 1..Len(tasks) :
              /\ Failed(i)
              /\ batch.err = tasks[i].out.err
              /\ \A j \in 1..Len(tasks) : Failed(j) => tasks[i].stamp <= tasks[j].stamp
    /\ (batch.state \in {"returned", "raised"} /\ \E i \in 1..Len(tasks) : Failed(i))
          => batch.state = "raised" /\ batch.val = NoStack
    /\ (batch.state = "raised" /\ token_ids_list = <<>>) => batch.err = StackError
    /\ (sbatch.res.state = "raised" /\ sbatch.token_ids_list = <<>>)
          => sbatch.res.err = StackError
    /\ sbatch.res.state = "returned" =>
          /\ Len(SyncRows) = Len(sbatch.token_ids_list)
          /\ \A i \in 1..Len(sbatch.token_ids_list) :
                Entry("sync", sbatch.token_ids_list[i], Returned(SyncRows[i])) \in log
    /\ (sbatch.res.state = "raised" /\ sbatch.token_ids_list # <<>>) =>
          LET k == Len(sbatch.calls)
          IN  /\ k >= 1
              /\ sbatch.res.val = NoStack
              /\ Entry("sync", sbatch.token_ids_list[k], Raised(sbatch.res.err)) \in log
              /\ \A j \in 1..(k - 1) :
                    \E e \in log : /\ e.kind = "sync"
                                   /\ e.token_ids = sbatch.token_ids_list[j]
                                   /\ e.out.ok

(* Both members of a non-blocking batch raised, the second one first, and   *)
(* the batch raised; a blocking batch raised too.                           *)
Wit_C2_TwoMembersFailed ==
    /\ batch.state = "raised"
    /\ Len(tasks) = 2
    /\ Failed(1) /\ Failed(2)
    /\ tasks[1].out.err # tasks[2].out.err
    /\ tasks[2].stamp < tasks[1].stamp
    /\ sbatch.res.state = "raised"
    /\ sbatch.token_ids_list # <<>>

(* C3: the non-blocking batch has one fan-out call per element of its       *)
(* input, for that element, and has not returned, nor has gather resolved   *)
(* to a result, while a fan-out call is still pending.                      *)
Thm_C3_ReturnsOnlyAfterJoin ==
    /\ Len(tasks) = Len(token_ids_list)
    /\ \A i \in 1..Len(tasks) : tasks[i].token_ids = token_ids_list[i]
    /\ (batch.state = "returned" \/ outer.state = "result") =>
          \A i \in 1..Len(tasks) : tasks[i].state = "done"

(* A batch of two requests has returned.                                    *)
Wit_C3_BatchOfTwoReturned ==
    /\ batch.state = "returned"
    /\ Len(tasks) = 2
    /\ \A i \in 1..2 : tasks[i].state = "done"

(* C4: batch_next_token_logprobs_sync calls next_token_logprobs_sync once   *)
(* per element in input order, and when it returns row i is what            *)
(* next_token_logprobs_sync returns for request i, in this call and in any  *)
(* other.                                                                   *)
Thm_C4_SyncBatchIsStackOfSingles ==
    /\ sbatch.calls = SubSeq(sbatch.token_ids_list, 1, Len(sbatch.calls))
    /\ sbatch.res.state = "returned" =>
          /\ sbatch.token_ids_list # <<>>
          /\ sbatch.calls = sbatch.token_ids_list
          /\ sbatch.res.val.shape[1] = Len(sbatch.token_ids_list)
          /\ Len(SyncRows) = Len(sbatch.token_ids_list)
          /\ \A i \in 1..Len(sbatch.token_ids_list) :
                /\ Entry("sync", sbatch.token_ids_list[i], Returned(SyncRows[i])) \in log
                /\ \A e \in log :
                      (e.kind = "sync" /\ e.token_ids = sbatch.token_ids_list[i])
                          => e.out = Returned(SyncRows[i])

(* A blocking batch of two requests with different distributions has        *)
(* returned, and a third single-request call was served besides.            *)
Wit_C4_SyncBatchOfTwoReturned ==
    /\ sbatch.res.state = "returned"
    /\ Len(sbatch.token_ids_list) = 2
    /\ SyncRows[1] # SyncRows[2]
    /\ ncalls = 3

(* C5: a non-blocking and a blocking single-request call on the same token  *)
(* sequence have the same outcome.                                          *)
Thm_C5_AsyncEqualsSync ==
    \A a \in log : \A b \in log :
        (a.kind = "async" /\ b.kind = "sync" /\ a.token_ids = b.token_ids)
            => a.out = b.out

(* Both entry points have returned a distribution for one token sequence.   *)
Wit_C5_BothEntryPointsCalled ==
    \E a \in log : \E b \in log :
        /\ a.kind = "async" /\ b.kind = "sync"
        /\ a.token_ids = b.token_ids
        /\ a.out.ok /\ b.out.ok

(* C6: any two single-request calls on the same token sequence, direct or   *)
(* made by a batch, in any order and with any calls between them, have the  *)
(* same outcome: no call sees the generator state another left.             *)
Thm_C6_OutcomeDependsOnTokensOnly ==
    \A a \in log : \A b \in log : a.token_ids = b.token_ids => a.out = b.out

(* The two fan-out calls of a batch were for the same token sequence and    *)
(* both returned, and a call returned another distribution as well.         *)
Wit_C6_RepeatedCallAmongOthers ==
    /\ Len(tasks) = 2
    /\ tasks[1].token_ids = tasks[2].token_ids
    /\ tasks[1].state = "done" /\ tasks[1].out.ok
    /\ tasks[2].state = "done" /\ tasks[2].out.ok
    /\ \E e \in log : e.out.ok /\ e.out # tasks[1].out
    /\ ncalls = 3

(* C7: every tensor a single-request call returned has len(tokenizer)       *)
(* entries and is normalised; a batch result has one such row per request.  *)
Thm_C7_ShapeAndNormalisation ==
    /\ \A e \in log : e.out.ok => IsDistribution(e.out.val)
    /\ batch.state = "returned" =>
          /\ batch.val.shape = <<Len(token_ids_list), VocabSize>>
          /\ Len(Rows) = Len(token_ids_list)
          /\ \A i \in 1..Len(Rows) : IsDistribution(Rows[i])
    /\ sbatch.res.state = "returned" =>
          /\ sbatch.res.val.shape = <<Len(sbatch.token_ids_list), VocabSize>>
          /\ Len(SyncRows) = Len(sbatch.token_ids_list)
          /\ \A i \in 1..Len(SyncRows) : IsDistribution(SyncRows[i])

(* A non-blocking batch of two requests has returned and a blocking batch   *)
(* has returned.                                                            *)
Wit_C7_BatchesReturned ==
    /\ batch.state = "returned"
    /\ Len(Rows) = 2
    /\ sbatch.res.state = "returned"
    /\ log # {}

(* C8: no step changes the tokenizer, the byte table or the string table,   *)
(* and a clear_cache step changes nothing of the client or of the calls in  *)
(* progress.                                                                *)
Thm_C8_VocabularyNeverRebuilt ==
    [][ /\ tokenizer' = tokenizer
        /\ byte_vocab' = byte_vocab
        /\ str_vocab' = str_vocab
        /\ last' = "clear_cache" =>
              UNCHANGED <<tokenizer, byte_vocab, str_vocab, _rng, token_ids_list,
                          tasks, outer, batch, sbatch, log, ncalls>> ]_vars

(* clear_cache has just run while a batch is in flight and after requests   *)
(* were served, and the tables are those built at construction.             *)
Wit_C8_ClearCacheDuringBatch ==
    /\ last = "clear_cache"
    /\ batch.state = "awaiting"
    /\ log # {}
    /\ byte_vocab = decode_vocab(tokenizer)[1]
    /\ str_vocab = decode_vocab(tokenizer)[2]

(* The claimed seed: the sum of (i + 1) * t[i], i counting from 0, taken    *)
(* from the last element down.                                              *)
RECURSIVE PositionWeightedSum(_)
PositionWeightedSum(t) ==
    IF t = <<>> THEN 0
    ELSE PositionWeightedSum(SubSeq(t, 1, Len(t) - 1)) + Len(t) * t[Len(t)]

DrawnWithSeed(t, seed) ==
    \A j \in 1..RowLen(t) : t.of[j].seed = seed

(* C9: the distribution returned for t is drawn from the generator seeded   *)
(* with the position-weighted sum of t: 0 for the empty sequence, 14 for    *)
(* [1,2,3], and 3 both for [3] and for [1,1], which get one distribution.   *)
Thm_C9_SeedIsPositionWeightedSum ==
    \A e \in log :
        /\ e.out.ok
        /\ RowLen(e.out.val) >= 1
        /\ DrawnWithSeed(e.out.val, Big(PositionWeightedSum(e.token_ids)))
        /\ e.token_ids = <<>> => DrawnWithSeed(e.out.val, <<0, 0>>)
        /\ e.token_ids = <<1, 2, 3>> => DrawnWithSeed(e.out.val, <<0, 14>>)
        /\ e.token_ids \in { <<3>>, <<1, 1>> } =>
              e.out = Returned(log_softmax(rand_float32(RandomState(<<0, 3>>), VocabSize)))

(* [1,1] was served, with the seed [3] gets.                                *)
Wit_C9_CollidingSequenceServed ==
    \E e \in log : /\ e.token_ids = <<1, 1>>
                   /\ e.out.ok
                   /\ DrawnWithSeed(e.out.val, <<0, 3>>)

(* C10: a single-request call on a sequence of in-range ids returns a       *)
(* distribution: its seed is one the generator accepts.                     *)
Cex_C10_InRangeSequenceIsServed ==
    \A e \in log : InRange(e.token_ids, VocabSize) => e.out.ok

====
